---- MODULE Spec2Model ----
\* Booking / payment / refund workflow of blueox-ride:
\*   - the ledger (rides, bookings, payments) with its CHECK constraints and
\*     the booking_seats_update trigger (supabase/add-car-details-migration.sql),
\*   - the pandora-webhook edge function,
\*   - the initiate-payment and process-refund edge functions,
\*   - the client pages that write bookings directly (RideDetailsPage, MyRidesPage).
\* Every edge function is a stateless request handler whose database statements
\* are separate round trips; each statement is one step of a worker here, so
\* statements of concurrent requests interleave freely.
EXTENDS Integers, Sequences, FiniteSets, TLC

\* ---------------------------------------------------------------- bounds
\* total_seats of the ride the driver published
TotalSeats == 3
MaxSeatsBooked == 2
MaxPayments == 2
MaxRetryCount == 1
\* price of a seat of the ride, in UGX
Price == 15
\* the prices of the rides whose fee is computed
MaxPrice == 25
\* payment rows when cancellations of one booking run concurrently
MaxRefundPayments == 3

\* ------------------------------------------------------- program constants
\* CHECK (seats_booked > 0 AND seats_booked <= 4)
MaxSeatsPerBooking == 4

\* hoursUntilDeparture > 1, in minutes
RefundWindowMinutes == 60

\* ---------------------------------------------------------------- domains
Passengers == {"p1", "p2"}
Driver == "d"
Users == Passengers \cup {Driver}
RideId == "r1"
WorkerIds == {1, 2}
UnknownRef == 0
\* A payload without transaction_ref / without status.
MissingRef == -1
MissingStatus == "missing"

booking_status ==
  {"pending_payment", "confirmed", "cancelled_by_passenger", "cancelled_by_driver", "completed"}
payment_status == {"pending", "processing", "completed", "failed", "refunded"}
payment_type == {"booking_fee", "refund_to_passenger", "refund_to_driver"}
PandoraStatus == {"processing", "completed", "failed", "cancelled", "expired"}
CancelledStatuses == {"cancelled_by_passenger", "cancelled_by_driver"}
\* (departure_time - now) in minutes, as read by a handler from the wall clock
MinutesUntil == {-30, 30, 60, 61}

\* A contact is the sequence of the characters of phone_number.
Digits == {"0", "1", "2", "3", "4", "5", "6", "7", "8", "9"}
\* Subscriber numbers: nine digits, the first of them 7, 8 or 9.
Subscribers ==
  { <<"7", "0", "1", "2", "3", "4", "5", "6", "7">>,
    <<"8", "2", "5", "6", "0", "0", "0", "0", "0">>,
    <<"9", "9", "9", "9", "9", "9", "2", "5", "6">> }
CountryCode == <<"2", "5", "6">>
\* The spellings of a subscriber number: +256, 256, 0 or nothing in front, and
\* the same with blanks around and between the groups of digits.
Prefixes == {<<"+">> \o CountryCode, CountryCode, <<"0">>, <<>>}
Grouped(prefix, sub) ==
  <<" ">> \o prefix \o <<" ">> \o SubSeq(sub, 1, 3) \o <<" ">> \o SubSeq(sub, 4, 9) \o <<" ">>
Spellings(sub) == {p \o sub : p \in Prefixes} \cup {Grouped(p, sub) : p \in Prefixes}
\* Contacts that are no spelling of a subscriber number.
NoContacts ==
  { <<"0", "6", "0", "1", "2", "3", "4", "5", "6", "7">>,
    <<"7", "0", "1", "2", "3", "4", "5", "6">>,
    <<"+", "0", "7", "0", "1", "2", "3", "4", "5", "6", "7">>,
    <<"2", "5", "6", "0", "7", "0", "1", "2", "3", "4", "5", "6", "7">>,
    <<"0", "7", "0", "1", "2", "x", "4", "5", "6", "7">> }
\* The contact the requests of the workflow carry, and a malformed one.
ValidPhone == <<"0", "7", "0", "1", "2", "3", "4", "5", "6", "7">>
InvalidPhone == <<"7", "0", "1", "2", "3", "4", "5", "6">>
\* users.phone_number of the driver, when there is one on file
DriverPhone == <<"2", "5", "6", "7", "7", "7", "7", "7", "7", "7", "7", "7">>

\* rides, bookings, payments: the tables. gateway: the references the payment
\* gateway has accepted a request for. workers: the requests in flight.
\* response: the answer sent by the step just taken, if it sent one (seen: the
\* status of the payment row a webhook answered about).
\* reserved: history, the payments whose confirmation has taken seats.
VARIABLES rides, bookings, payments, gateway, workers, response, reserved
vars == <<rides, bookings, payments, gateway, workers, response, reserved>>
db == <<rides, bookings, payments>>

NoBooking == [status |-> "none", seats_booked |-> 0, booking_fee |-> 0]
\* phone_number: the contact of the request; phone: normalizedPhone of
\* initiate-payment, recipientPhone of process-refund.
Idle == [kind |-> "idle", pc |-> "idle", booking |-> "-", pid |-> 0, orig |-> 0,
         retry |-> 0, ctype |-> "-", rtype |-> "-", minutes |-> 0, accepted |-> FALSE,
         phone_number |-> <<>>, phone |-> <<>>]
NoResponse == [kind |-> "-", resp |-> "-", seen |-> "-"]
Answer(k, r) == [kind |-> k, resp |-> r, seen |-> "-"]

Exists(b) == bookings[b].status # "none"

\* The rows of table bookings a passenger can have for the ride: the row the
\* functions address by the passenger's booking id, and the place of a further
\* row of the same (ride_id, passenger_id).
SecondRow(u) == IF u = "p1" THEN "p1_second" ELSE "p2_second"
RowsOf(u) == {u, SecondRow(u)}
BookingRows == UNION {RowsOf(u) : u \in Passengers}
\* The row an INSERT for passenger u creates.
NewRow(bs, u) == IF bs[u].status = "none" THEN u ELSE SecondRow(u)

\* Mutant: table bookings without the constraint.
unique_passenger_ride_dropped(bs, u) == TRUE

\* CONSTRAINT unique_passenger_ride UNIQUE (ride_id, passenger_id): an INSERT
\* is accepted when the passenger has no row for the ride, whatever its status.
unique_passenger_ride(bs, u) == \A k \in RowsOf(u) : bs[k].status = "none"
PaymentIds == 1..Len(payments)
\* A request is taken by the first worker that is free.
Free(w) == workers[w].pc = "idle" /\ \A v \in WorkerIds : v < w => workers[v].pc # "idle"

\* ------------------------------------------------------------ the ledger
\* Mutant: the column lacks CHECK (available_seats >= 0).
RideChecksNoLowerBound(r) ==
  /\ r.total_seats > 0 /\ r.total_seats <= 8
  /\ r.available_seats <= r.total_seats

\* CHECK (available_seats >= 0), CHECK (total_seats > 0 AND total_seats <= 8),
\* CONSTRAINT valid_seats CHECK (available_seats <= total_seats)
RideChecks(r) ==
  /\ r.available_seats >= 0
  /\ r.total_seats > 0 /\ r.total_seats <= 8
  /\ r.available_seats <= r.total_seats

\* Mutant: a confirmation takes one seat whatever seats_booked is.
update_available_seats_one(r, old, new) ==
  IF new.status = "confirmed" /\ old.status # "confirmed"
  THEN LET dec == [r EXCEPT !.available_seats = r.available_seats - 1]
       IN IF dec.available_seats = 0 THEN [dec EXCEPT !.status = "full"] ELSE dec
  ELSE IF new.status \in CancelledStatuses /\ old.status = "confirmed"
  THEN [r EXCEPT !.available_seats = r.available_seats + old.seats_booked,
                 !.status = "active"]
  ELSE r

\* Mutant: a cancellation gives one seat back whatever seats_booked is.
update_available_seats_restore_one(r, old, new) ==
  IF new.status = "confirmed" /\ old.status # "confirmed"
  THEN LET dec == [r EXCEPT !.available_seats = r.available_seats - new.seats_booked]
       IN IF dec.available_seats = 0 THEN [dec EXCEPT !.status = "full"] ELSE dec
  ELSE IF new.status \in CancelledStatuses /\ old.status = "confirmed"
  THEN [r EXCEPT !.available_seats = r.available_seats + 1, !.status = "active"]
  ELSE r

\* Mutant: a cancellation gives the seats back and leaves the ride's status.
update_available_seats_keep_status(r, old, new) ==
  IF new.status = "confirmed" /\ old.status # "confirmed"
  THEN LET dec == [r EXCEPT !.available_seats = r.available_seats - new.seats_booked]
       IN IF dec.available_seats = 0 THEN [dec EXCEPT !.status = "full"] ELSE dec
  ELSE IF new.status \in CancelledStatuses /\ old.status = "confirmed"
  THEN [r EXCEPT !.available_seats = r.available_seats + old.seats_booked]
  ELSE r

\* update_available_seats(): the AFTER UPDATE trigger on bookings, applied to
\* the ride row; old and new are the booking row before and after the UPDATE.
update_available_seats(r, old, new) ==
  IF new.status = "confirmed" /\ old.status # "confirmed"
  THEN LET dec == [r EXCEPT !.available_seats = r.available_seats - new.seats_booked]
       IN IF dec.available_seats = 0 THEN [dec EXCEPT !.status = "full"] ELSE dec
  ELSE IF new.status \in CancelledStatuses /\ old.status = "confirmed"
  THEN [r EXCEPT !.available_seats = r.available_seats + old.seats_booked,
                 !.status = "active"]
  ELSE r

\* Mutant: the update is applied whatever the ride row becomes.
UpdateBookingStatusUnchecked(rs, bs, b, s) ==
  IF bs[b].status = "none" THEN [ok |-> TRUE, rides |-> rs, bookings |-> bs]
  ELSE LET new == [bs[b] EXCEPT !.status = s]
       IN [ok |-> TRUE,
           rides |-> [rs EXCEPT ![RideId] = update_available_seats(rs[RideId], bs[b], new)],
           bookings |-> [bs EXCEPT ![b] = new]]

\* UPDATE bookings SET status = s WHERE id = b, with its trigger; the statement
\* fails as a whole (nothing written) when the ride row the trigger produces
\* violates a CHECK constraint.
UpdateBookingStatus(rs, bs, b, s) ==
  IF bs[b].status = "none" THEN [ok |-> TRUE, rides |-> rs, bookings |-> bs]
  ELSE LET new == [bs[b] EXCEPT !.status = s]
           r2 == update_available_seats(rs[RideId], bs[b], new)
       IN IF RideChecks(r2)
          THEN [ok |-> TRUE, rides |-> [rs EXCEPT ![RideId] = r2],
                bookings |-> [bs EXCEPT ![b] = new]]
          ELSE [ok |-> FALSE, rides |-> rs, bookings |-> bs]

\* Mutant: the column pandora_reference is not UNIQUE.
UniqueViolationNever(ps, ref) == FALSE

\* pandora_reference TEXT UNIQUE: an INSERT whose reference is the reference of
\* a row of the table is refused.
UniqueViolation(ps, ref) == \E i \in 1..Len(ps) : ps[i].pandora_reference = ref

\* The references a handler can generate: `BLUEOX${Date.now()}${random}` and
\* `BLUEOX-REFUND-${Date.now()}-${booking_id.substring(0, 8)}` are not checked
\* against the table, so the new reference is fresh (Len(ps) + 1) or is the
\* reference of a row already there.
References(ps) == 1..(Len(ps) + 1)
FreshReference(ps) == Len(ps) + 1

\* INSERT INTO payments: the new row gets the next id and the reference the
\* handler generated for it; pandora_transaction_id and error_message are
\* NULL, retry_count 0 by default.
InsertPayment(ps, b, u, t, amt, ref, phone) ==
  Append(ps, [booking_id |-> b, user_id |-> u, payment_type |-> t, status |-> "pending",
              amount |-> amt, pandora_reference |-> ref, pandora_transaction_id |-> "null",
              phone_number |-> phone, error_message |-> "null", retry_count |-> 0])

\* Mutant: the fee of one seat is rounded up, then multiplied by the seats.
bookingFeePerSeat(price, seats) == ((price + 9) \div 10) * seats

\* Math.ceil(booking.ride.price * 0.1 * booking.seats_booked). The product is
\* computed in IEEE doubles: 0.1 is (1 + 2^-54) / 10, and for integer prices
\* up to 2,000,000 and 1..4 seats the rounded product has the same ceiling as
\* the exact price * seats / 10, which is what is computed here.
bookingFee(price, seats) == (price * seats + 9) \div 10

\* calculateBookingFee(ride.price) * seats of the booking page
calculateBookingFee(ridePrice) == (ridePrice + 9) \div 10

\* if (booking.booking_fee !== bookingFee) bookings.update({booking_fee: bookingFee})
SetBookingFee(bs, b, fee) ==
  IF bs[b].booking_fee # fee THEN [bs EXCEPT ![b].booking_fee = fee] ELSE bs

\* phone_number.replace(/\s/g, '')
cleanPhone(phone_number) == SelectSeq(phone_number, LAMBDA c : c # " ")

startsWith(s, prefix) == Len(s) >= Len(prefix) /\ SubSeq(s, 1, Len(prefix)) = prefix

\* /^(\+256|256|0)?[7-9]\d{8}$/.test(s)
phoneRegex(s) ==
  \E prefix \in Prefixes :
    /\ Len(s) = Len(prefix) + 9
    /\ startsWith(s, prefix)
    /\ s[Len(prefix) + 1] \in {"7", "8", "9"}
    /\ \A i \in (Len(prefix) + 2)..Len(s) : s[i] \in Digits

\* Mutant: a contact that starts with 256 gets the country code once more.
normalizePhoneAlways(cleanPhoneNumber) ==
  IF startsWith(cleanPhoneNumber, <<"+">> \o CountryCode) THEN Tail(cleanPhoneNumber)
  ELSE IF startsWith(cleanPhoneNumber, <<"0">>) THEN CountryCode \o Tail(cleanPhoneNumber)
  ELSE CountryCode \o cleanPhoneNumber

\* normalizedPhone: +256... loses the +, 0... gets 256 for the 0, and what
\* does not start with 256 gets 256 in front.
normalizePhone(cleanPhoneNumber) ==
  IF startsWith(cleanPhoneNumber, <<"+">> \o CountryCode) THEN Tail(cleanPhoneNumber)
  ELSE IF startsWith(cleanPhoneNumber, <<"0">>) THEN CountryCode \o Tail(cleanPhoneNumber)
  ELSE IF ~startsWith(cleanPhoneNumber, CountryCode) THEN CountryCode \o cleanPhoneNumber
  ELSE cleanPhoneNumber

\* Mutant: a reference that matches no row selects the newest payment.
PaymentByReferenceOrNewest(ps, ref) ==
  IF {i \in 1..Len(ps) : ps[i].pandora_reference = ref} = {}
  THEN {i \in 1..Len(ps) : i = Len(ps)}
  ELSE {i \in 1..Len(ps) : ps[i].pandora_reference = ref}

\* .from('payments').select().eq('pandora_reference', ref).single()
PaymentByReference(ps, ref) == {i \in 1..Len(ps) : ps[i].pandora_reference = ref}

\* UPDATE payments SET status = st WHERE id = pid
SetPaymentStatus(ps, pid, st) == [ps EXCEPT ![pid].status = st]

\* UPDATE payments SET status = st, pandora_transaction_id = ... WHERE id = pid
SetPaymentStatusAndTransaction(ps, pid, st) ==
  [ps EXCEPT ![pid].status = st, ![pid].pandora_transaction_id = "set"]

TypeOK ==
  /\ rides \in [{RideId} -> [total_seats : 1..8, available_seats : Int, price : Nat \ {0},
                             status : {"active", "full", "completed", "cancelled"}]]
  /\ DOMAIN bookings = BookingRows
  /\ \A b \in BookingRows : bookings[b] = NoBooking
        \/ (/\ bookings[b].status \in booking_status
            /\ bookings[b].seats_booked \in 1..MaxSeatsPerBooking
            /\ bookings[b].booking_fee > 0)
  /\ \A i \in PaymentIds : /\ payments[i].status \in payment_status
                           /\ payments[i].payment_type \in payment_type
                           /\ payments[i].booking_id \in Passengers
                           /\ payments[i].amount > 0
                           /\ payments[i].error_message \in {"null", "set"}
                           /\ payments[i].pandora_transaction_id \in {"null", "set"}
                           /\ payments[i].pandora_reference \in PaymentIds
  /\ gateway \subseteq PaymentIds

Init ==
  /\ rides = [r \in {RideId} |->
       [total_seats |-> TotalSeats, available_seats |-> TotalSeats, price |-> Price,
        status |-> "active"]]
  /\ bookings = [b \in BookingRows |-> NoBooking]
  /\ payments = <<>>
  /\ gateway = {}
  /\ workers = [w \in WorkerIds |-> Idle]
  /\ response = NoResponse
  /\ reserved = {}

\* ------------------------------------------------- RideDetailsPage.handleBook
\* The page checks seats against the ride it fetched when it was opened; the
\* insert is subject to UNIQUE (ride_id, passenger_id) and the seats_booked CHECK.
handleBook(u, seats, viewSeats) ==
  /\ ~(seats > viewSeats)
  /\ unique_passenger_ride(bookings, u)
  /\ seats > 0 /\ seats <= MaxSeatsPerBooking
  /\ bookings' = [bookings EXCEPT ![NewRow(bookings, u)] =
       [status |-> "pending_payment", seats_booked |-> seats,
        booking_fee |-> calculateBookingFee(rides[RideId].price) * seats]]
  /\ response' = NoResponse
  /\ UNCHANGED <<rides, payments, gateway, workers, reserved>>

\* ------------------------------------------- MyRidesPage.handleCancelBooking
\* Branch taken when the page's copy of the booking is not 'confirmed': the
\* booking is updated directly. The copy was fetched earlier; every booking
\* was pending_payment when it was created, so the branch is open for every
\* existing booking whatever its current status in the database.
handleCancelBooking(u) ==
  /\ Exists(u)
  /\ LET res == UpdateBookingStatus(rides, bookings, u, "cancelled_by_passenger")
     IN /\ rides' = res.rides
        /\ bookings' = res.bookings
  /\ response' = NoResponse
  /\ UNCHANGED <<payments, gateway, workers, reserved>>

\* --------------------------------------------- MyRidesPage.handleCancelRide
\* rides.update({status: 'cancelled'}).eq('id', rideId). The page offers the
\* action for a ride that is 'active' in the copy it fetched (viewStatus);
\* the statement itself has no condition on the status. The refunds the page
\* then asks for are process-refund requests of the driver.
handleCancelRide(viewStatus) ==
  /\ viewStatus = "active"
  /\ rides' = [rides EXCEPT ![RideId].status = "cancelled"]
  /\ response' = NoResponse
  /\ UNCHANGED <<bookings, payments, gateway, workers, reserved>>

\* ------------------------------------------------ pandora-webhook/index.ts
\* Mutant: only a refunded payment counts as processed.
AlreadyProcessedRefundedOnly(st) == st = "refunded"

\* Mutant: only a completed payment counts as processed.
AlreadyProcessedCompletedOnly(st) == st = "completed"

\* Idempotency check on the payment row the handler selected.
AlreadyProcessed(st) == st = "completed" \/ st = "refunded"

FailureStatus == {"failed", "cancelled", "expired"}

\* Request received: payload parsed, payment selected by reference, the
\* idempotency check and the dispatch on payload.status.
WebhookLookup(w, ref, st) ==
  /\ Free(w)
  /\ LET found == PaymentByReference(payments, ref)
     IN IF ref = MissingRef \/ st = MissingStatus
        THEN /\ response' = Answer("webhook", "malformed")
             /\ UNCHANGED workers
        ELSE IF found = {}
        THEN /\ response' = Answer("webhook", "unknown")
             /\ UNCHANGED workers
        ELSE LET pid == CHOOSE i \in found : TRUE
                 p == payments[pid]
                 base == [Idle EXCEPT !.kind = "webhook", !.pid = pid, !.booking = p.booking_id]
             IN IF AlreadyProcessed(p.status)
                  THEN /\ response' = [Answer("webhook", "already") EXCEPT !.seen = p.status]
                       /\ UNCHANGED workers
                ELSE IF st = "completed"
                  THEN /\ workers' = [workers EXCEPT ![w] = [base EXCEPT !.pc = "update_payment"]]
                       /\ response' = NoResponse
                ELSE IF st \in FailureStatus
                  THEN /\ p.retry_count < MaxRetryCount
                       /\ workers' = [workers EXCEPT ![w] =
                            [base EXCEPT !.pc = "update_failed", !.retry = p.retry_count]]
                       /\ response' = NoResponse
                ELSE /\ response' = [Answer("webhook", "ok") EXCEPT !.seen = p.status]
                     /\ UNCHANGED workers
  /\ UNCHANGED <<rides, bookings, payments, gateway, reserved>>

\* payments.update({status: 'completed', pandora_transaction_id}).eq('id', payment.id)
WebhookUpdatePayment(w) ==
  /\ workers[w].kind = "webhook" /\ workers[w].pc = "update_payment"
  /\ payments' = SetPaymentStatusAndTransaction(payments, workers[w].pid, "completed")
  /\ workers' = [workers EXCEPT ![w].pc = "update_booking"]
  /\ response' = NoResponse
  /\ UNCHANGED <<rides, bookings, gateway, reserved>>

\* bookings.update({status: 'confirmed'}).eq('id', payment.booking_id); an
\* error of the statement is thrown and answered 200 {success: false}.
WebhookUpdateBooking(w) ==
  /\ workers[w].kind = "webhook" /\ workers[w].pc = "update_booking"
  /\ LET res == UpdateBookingStatus(rides, bookings, workers[w].booking, "confirmed")
     IN /\ rides' = res.rides
        /\ bookings' = res.bookings
        /\ response' = Answer("webhook", IF res.ok THEN "ok" ELSE "error")
        /\ reserved' = IF res.rides # rides THEN reserved \cup {workers[w].pid} ELSE reserved
  /\ workers' = [workers EXCEPT ![w] = Idle]
  /\ UNCHANGED <<payments, gateway>>

\* Mutant: retry_count is left as it was read.
FailPaymentKeepCount(ps, pid, retry) ==
  [ps EXCEPT ![pid].status = "failed", ![pid].error_message = "set",
             ![pid].retry_count = retry]

\* payments.update({status: 'failed', error_message, retry_count: payment.retry_count + 1})
FailPayment(ps, pid, retry) ==
  [ps EXCEPT ![pid].status = "failed", ![pid].error_message = "set",
             ![pid].retry_count = retry + 1]

WebhookUpdateFailed(w) ==
  /\ workers[w].kind = "webhook" /\ workers[w].pc = "update_failed"
  /\ payments' = FailPayment(payments, workers[w].pid, workers[w].retry)
  /\ workers' = [workers EXCEPT ![w] = Idle]
  /\ response' = Answer("webhook", "ok")
  /\ UNCHANGED <<rides, bookings, gateway, reserved>>

\* ----------------------------------------------- initiate-payment/index.ts
\* Request received: validations and the select of the booking with its ride.
InitiateStart(w, user, b, phone_number, minutes) ==
  /\ Free(w)
  /\ LET fail(r) == /\ response' = Answer("initiate", r)
                    /\ UNCHANGED workers
     IN IF ~phoneRegex(cleanPhone(phone_number)) THEN fail("invalid_phone")
        ELSE IF ~Exists(b) THEN fail("booking_not_found")
        ELSE IF b # user THEN fail("not_your_booking")
        ELSE IF bookings[b].status # "pending_payment" THEN fail("wrong_status")
        ELSE IF minutes < 0 THEN fail("departed")
        ELSE /\ workers' = [workers EXCEPT ![w] =
                  [Idle EXCEPT !.kind = "initiate", !.booking = b, !.pc = "insert_payment",
                               !.phone_number = phone_number,
                               !.phone = normalizePhone(cleanPhone(phone_number))]]
             /\ response' = NoResponse
  /\ UNCHANGED <<rides, bookings, payments, gateway, reserved>>

\* payments.insert({..., payment_type: 'booking_fee', status: 'pending',
\* pandora_reference, phone_number: normalizedPhone}) with the reference ref the
\* handler generated; an error of the insert is thrown. Then the booking_fee
\* of the booking is set to the amount of the payment; no other statement
\* reads or writes that column, so the two statements are one step here.
InitiateInsert(w, ref) ==
  /\ workers[w].kind = "initiate" /\ workers[w].pc = "insert_payment"
  /\ LET b == workers[w].booking
         fee == bookingFee(rides[RideId].price, bookings[b].seats_booked)
     IN IF UniqueViolation(payments, ref)
        THEN /\ workers' = [workers EXCEPT ![w] = Idle]
             /\ response' = Answer("initiate", "insert_failed")
             /\ UNCHANGED <<payments, bookings>>
        ELSE /\ payments' = InsertPayment(payments, b, b, "booking_fee", fee, ref,
                                          workers[w].phone)
             /\ bookings' = SetBookingFee(bookings, b, fee)
             /\ workers' = [workers EXCEPT ![w].pc = "call_gateway",
                                           ![w].pid = Len(payments) + 1]
             /\ response' = NoResponse
  /\ UNCHANGED <<rides, gateway, reserved>>

\* Mutant: the collect request is sent before the payment row is inserted,
\* under the reference the row will get.
InitiateCallGatewayUnsaved(w, accepted) ==
  /\ workers[w].kind = "initiate" /\ workers[w].pc = "call_gateway"
  /\ gateway' = IF accepted THEN gateway \cup {FreshReference(payments)} ELSE gateway
  /\ workers' = [workers EXCEPT ![w].pc = "update_status", ![w].accepted = accepted]
  /\ response' = NoResponse
  /\ UNCHANGED <<rides, bookings, payments, reserved>>

\* fetch(`${PANDORA_BASE_URL}/transactions/mobile-money`): the gateway accepts
\* the collect request (and from then on may notify about it) or rejects it.
InitiateCallGateway(w, accepted) ==
  /\ workers[w].kind = "initiate" /\ workers[w].pc = "call_gateway"
  /\ gateway' = IF accepted THEN gateway \cup {payments[workers[w].pid].pandora_reference}
                ELSE gateway
  /\ workers' = [workers EXCEPT ![w].pc = "update_status", ![w].accepted = accepted]
  /\ response' = NoResponse
  /\ UNCHANGED <<rides, bookings, payments, reserved>>

\* Mutant: the payment of a request the gateway rejected is left as it is.
InitiateStatusKeepPending(ps, pid, accepted) ==
  IF accepted THEN SetPaymentStatusAndTransaction(ps, pid, "processing") ELSE ps

\* payments.update({status: 'processing', pandora_transaction_id}) or
\* payments.update({status: 'failed', error_message}), .eq('id', payment.id)
InitiateStatus(ps, pid, accepted) ==
  IF accepted THEN SetPaymentStatusAndTransaction(ps, pid, "processing")
  ELSE [ps EXCEPT ![pid].status = "failed", ![pid].error_message = "set"]

InitiateUpdate(w) ==
  /\ workers[w].kind = "initiate" /\ workers[w].pc = "update_status"
  /\ payments' = InitiateStatus(payments, workers[w].pid, workers[w].accepted)
  /\ workers' = [workers EXCEPT ![w] = Idle]
  /\ response' = Answer("initiate", IF workers[w].accepted THEN "ok" ELSE "gateway_error")
  /\ UNCHANGED <<rides, bookings, gateway, reserved>>

\* ----------------------------------------- process-refund (initiate-payment/index.ts)
\* Mutant: a cancellation exactly one hour before departure is still refunded.
RefundTypeInclusive(ctype, minutes) ==
  IF ctype = "driver" THEN "refund_to_passenger"
  ELSE IF minutes >= RefundWindowMinutes THEN "refund_to_passenger"
  ELSE "refund_to_driver"

\* Refund recipient: cancellation_type and (departure - now), here in minutes.
RefundType(ctype, minutes) ==
  IF ctype = "driver" THEN "refund_to_passenger"
  ELSE IF minutes > RefundWindowMinutes THEN "refund_to_passenger"
  ELSE "refund_to_driver"

\* booking.payment?.find(p => p.status === 'completed' && p.amount > 0); the
\* amount of every payment row is positive (CHECK amount > 0).
CompletedPayments(ps, b) ==
  {i \in 1..Len(ps) : ps[i].booking_id = b /\ ps[i].status = "completed"}

\* Request received: select of the confirmed booking with ride and payments,
\* permission check, original payment, refund recipient.
\* driverPhone: whether the select of the driver's users row returns a
\* phone_number (the column is nullable).
RefundStart(w, user, b, ctype, minutes, driverPhone) ==
  /\ Free(w)
  /\ LET fail(r) == /\ response' = Answer("refund", r)
                    /\ UNCHANGED workers
         isDriver == user = Driver
         isPassenger == user = b
         rtype == RefundType(ctype, minutes)
     IN IF ~Exists(b) \/ bookings[b].status # "confirmed" THEN fail("booking_not_found")
        ELSE IF ctype = "driver" /\ ~isDriver THEN fail("not_driver")
        ELSE IF ctype = "passenger" /\ ~isPassenger THEN fail("not_passenger")
        ELSE IF CompletedPayments(payments, b) = {} THEN fail("no_completed_payment")
        ELSE IF rtype = "refund_to_driver" /\ ~driverPhone THEN fail("driver_phone_not_found")
        ELSE /\ \E o \in CompletedPayments(payments, b) :
                  workers' = [workers EXCEPT ![w] =
                    [Idle EXCEPT !.kind = "refund", !.booking = b, !.ctype = ctype,
                                 !.pc = "insert_refund", !.orig = o, !.minutes = minutes,
                                 !.rtype = rtype,
                                 !.phone = IF rtype = "refund_to_driver" THEN DriverPhone
                                           ELSE payments[o].phone_number]]
             /\ response' = NoResponse
  /\ UNCHANGED <<rides, bookings, payments, gateway, reserved>>

\* payments.insert({..., payment_type: refundType, status: 'pending',
\* pandora_reference, phone_number: recipientPhone}) with the reference ref the
\* handler generated; an error of the insert is thrown.
RefundInsert(w, ref) ==
  /\ workers[w].kind = "refund" /\ workers[w].pc = "insert_refund"
  /\ IF UniqueViolation(payments, ref)
     THEN /\ workers' = [workers EXCEPT ![w] = Idle]
          /\ response' = Answer("refund", "insert_failed")
          /\ UNCHANGED payments
     ELSE /\ payments' = InsertPayment(payments, workers[w].booking,
                 IF workers[w].rtype = "refund_to_driver" THEN Driver ELSE workers[w].booking,
                 workers[w].rtype, payments[workers[w].orig].amount, ref, workers[w].phone)
          /\ workers' = [workers EXCEPT ![w].pc = "call_gateway", ![w].pid = Len(payments) + 1,
                                        ![w].minutes = 0]
          /\ response' = NoResponse
  /\ UNCHANGED <<rides, bookings, gateway, reserved>>

\* fetch('.../disbursements/mobile-money')
RefundCallGateway(w, accepted) ==
  /\ workers[w].kind = "refund" /\ workers[w].pc = "call_gateway"
  /\ gateway' = IF accepted THEN gateway \cup {payments[workers[w].pid].pandora_reference}
                ELSE gateway
  /\ workers' = [workers EXCEPT ![w].pc = "update_refund", ![w].accepted = accepted]
  /\ response' = NoResponse
  /\ UNCHANGED <<rides, bookings, payments, reserved>>

\* !pandoraResponse.ok: the refund payment is marked failed and the handler
\* throws; otherwise the refund payment is marked processing.
RefundUpdateRefund(w) ==
  /\ workers[w].kind = "refund" /\ workers[w].pc = "update_refund"
  /\ payments' = InitiateStatus(payments, workers[w].pid, workers[w].accepted)
  /\ IF workers[w].accepted
       THEN /\ workers' = [workers EXCEPT ![w].pc = "update_booking"]
            /\ response' = NoResponse
       ELSE /\ workers' = [workers EXCEPT ![w] = Idle]
            /\ response' = Answer("refund", "gateway_error")
  /\ UNCHANGED <<rides, bookings, gateway, reserved>>

\* bookings.update({status: newStatus}).eq('id', booking_id); the result of the
\* statement is not inspected.
RefundUpdateBooking(w) ==
  /\ workers[w].kind = "refund" /\ workers[w].pc = "update_booking"
  /\ LET newStatus == IF workers[w].ctype = "driver" THEN "cancelled_by_driver"
                      ELSE "cancelled_by_passenger"
         res == UpdateBookingStatus(rides, bookings, workers[w].booking, newStatus)
     IN /\ rides' = res.rides
        /\ bookings' = res.bookings
  /\ workers' = [workers EXCEPT ![w].pc = "update_original"]
  /\ response' = NoResponse
  /\ UNCHANGED <<payments, gateway, reserved>>

\* payments.update({status: 'refunded'}).eq('id', originalPayment.id)
RefundUpdateOriginal(w) ==
  /\ workers[w].kind = "refund" /\ workers[w].pc = "update_original"
  /\ payments' = SetPaymentStatus(payments, workers[w].orig, "refunded")
  /\ workers' = [workers EXCEPT ![w] = Idle]
  /\ response' = Answer("refund", "ok")
  /\ UNCHANGED <<rides, bookings, gateway, reserved>>

\* ------------------------------------------------------------ specification
\* Passenger p1 books; any user (p2 is a stranger to the booking) sends any
\* request about it, the gateway answers and notifies in any way. The driver
\* has a contact on file and every generated reference is fresh.
Next ==
  \/ \E s \in 1..MaxSeatsBooked,
        v \in {rides[RideId].available_seats, rides[RideId].total_seats} : handleBook("p1", s, v)
  \/ handleCancelBooking("p1")
  \/ \E w \in WorkerIds, ref \in gateway \cup {UnknownRef}, st \in PandoraStatus :
        WebhookLookup(w, ref, st)
  \/ \E w \in WorkerIds : WebhookUpdatePayment(w)
  \/ \E w \in WorkerIds : WebhookUpdateBooking(w)
  \/ \E w \in WorkerIds : WebhookUpdateFailed(w)
  \/ \E w \in WorkerIds, u \in Users, ph \in {ValidPhone, InvalidPhone}, m \in {-30, 30} :
        InitiateStart(w, u, "p1", ph, m)
  \/ /\ Len(payments) < MaxPayments
     /\ \E w \in WorkerIds : InitiateInsert(w, FreshReference(payments))
  \/ \E w \in WorkerIds, a \in BOOLEAN : InitiateCallGateway(w, a)
  \/ \E w \in WorkerIds : InitiateUpdate(w)
  \/ \E w \in WorkerIds, u \in Users, c \in {"passenger", "driver"}, m \in MinutesUntil :
        RefundStart(w, u, "p1", c, m, TRUE)
  \/ /\ Len(payments) < MaxPayments
     /\ \E w \in WorkerIds : RefundInsert(w, FreshReference(payments))
  \/ \E w \in WorkerIds, a \in BOOLEAN : RefundCallGateway(w, a)
  \/ \E w \in WorkerIds : RefundUpdateRefund(w)
  \/ \E w \in WorkerIds : RefundUpdateBooking(w)
  \/ \E w \in WorkerIds : RefundUpdateOriginal(w)

Spec == Init /\ [][Next]_vars

\* Two passengers book seats of the same ride; the requests are well-formed,
\* the gateway accepts every request and reports every payment completed.
NextSeats ==
  \/ \E u \in Passengers, s \in 1..MaxSeatsBooked,
        v \in {rides[RideId].available_seats, rides[RideId].total_seats} : handleBook(u, s, v)
  \/ \E u \in Passengers : handleCancelBooking(u)
  \/ \E w \in WorkerIds, ref \in gateway : WebhookLookup(w, ref, "completed")
  \/ \E w \in WorkerIds : WebhookUpdatePayment(w)
  \/ \E w \in WorkerIds : WebhookUpdateBooking(w)
  \/ \E w \in WorkerIds, b \in Passengers : InitiateStart(w, b, b, ValidPhone, 30)
  \/ /\ Len(payments) < MaxPayments
     /\ \E w \in WorkerIds : InitiateInsert(w, FreshReference(payments))
  \/ \E w \in WorkerIds : InitiateCallGateway(w, TRUE)
  \/ \E w \in WorkerIds : InitiateUpdate(w)
  \/ \E w \in WorkerIds, b \in Passengers, m \in MinutesUntil :
        \E u \in {b, Driver} :
          RefundStart(w, u, b, IF u = Driver THEN "driver" ELSE "passenger", m, TRUE)
  \/ /\ Len(payments) < MaxPayments
     /\ \E w \in WorkerIds : RefundInsert(w, FreshReference(payments))
  \/ \E w \in WorkerIds : RefundCallGateway(w, TRUE)
  \/ \E w \in WorkerIds : RefundUpdateRefund(w)
  \/ \E w \in WorkerIds : RefundUpdateBooking(w)
  \/ \E w \in WorkerIds : RefundUpdateOriginal(w)

SpecSeats == Init /\ [][NextSeats]_vars

\* One request at a time, with every input a caller can send: payloads with
\* missing fields, requests about a booking that does not exist (p2 never
\* books), any cancellation_type string, any user, any time to departure; the
\* driver may have no contact on file, and a generated reference may be the
\* reference of an earlier payment.
Quiet == \A v \in WorkerIds : workers[v] = Idle

NextInputs ==
  \/ \E s \in 1..MaxSeatsBooked : handleBook("p1", s, rides[RideId].available_seats)
  \/ handleCancelBooking("p1")
  \/ /\ Quiet
     /\ \E w \in WorkerIds, ref \in gateway \cup {UnknownRef, MissingRef},
           st \in PandoraStatus \cup {MissingStatus} : WebhookLookup(w, ref, st)
  \/ \E w \in WorkerIds : WebhookUpdatePayment(w)
  \/ \E w \in WorkerIds : WebhookUpdateBooking(w)
  \/ \E w \in WorkerIds : WebhookUpdateFailed(w)
  \/ /\ Quiet
     /\ \E w \in WorkerIds, u \in Users, b \in Passengers, ph \in {ValidPhone, InvalidPhone},
           m \in {-30, 30} : InitiateStart(w, u, b, ph, m)
  \/ /\ Len(payments) < MaxPayments
     /\ \E w \in WorkerIds, ref \in References(payments) : InitiateInsert(w, ref)
  \/ \E w \in WorkerIds, a \in BOOLEAN : InitiateCallGateway(w, a)
  \/ \E w \in WorkerIds : InitiateUpdate(w)
  \/ /\ Quiet
     /\ \E w \in WorkerIds, u \in Users, b \in Passengers,
           c \in {"passenger", "driver", "other"}, m \in MinutesUntil :
           \E dp \in BOOLEAN : RefundStart(w, u, b, c, m, dp)
  \/ /\ Len(payments) < MaxPayments
     /\ \E w \in WorkerIds, ref \in References(payments) : RefundInsert(w, ref)
  \/ \E w \in WorkerIds, a \in BOOLEAN : RefundCallGateway(w, a)
  \/ \E w \in WorkerIds : RefundUpdateRefund(w)
  \/ \E w \in WorkerIds : RefundUpdateBooking(w)
  \/ \E w \in WorkerIds : RefundUpdateOriginal(w)

SpecInputs == Init /\ [][NextInputs]_vars

\* The driver cancels the ride: two passengers book and pay, the driver or a
\* passenger cancels bookings, the driver cancels the ride at any time; one
\* request at a time, the gateway accepts every request and reports it completed.
NextCancelRide ==
  \/ \E u \in Passengers, s \in 1..MaxSeatsBooked :
        handleBook(u, s, rides[RideId].available_seats)
  \/ /\ Quiet
     /\ \E v \in {rides[RideId].status, "active"} : handleCancelRide(v)
  \/ /\ Quiet
     /\ \E w \in WorkerIds, ref \in gateway : WebhookLookup(w, ref, "completed")
  \/ \E w \in WorkerIds : WebhookUpdatePayment(w)
  \/ \E w \in WorkerIds : WebhookUpdateBooking(w)
  \/ /\ Quiet
     /\ \E w \in WorkerIds, b \in Passengers : InitiateStart(w, b, b, ValidPhone, 30)
  \/ /\ Len(payments) < MaxPayments
     /\ \E w \in WorkerIds : InitiateInsert(w, FreshReference(payments))
  \/ \E w \in WorkerIds : InitiateCallGateway(w, TRUE)
  \/ \E w \in WorkerIds : InitiateUpdate(w)
  \/ /\ Quiet
     /\ \E w \in WorkerIds, b \in Passengers : RefundStart(w, Driver, b, "driver", 61, TRUE)
  \/ /\ Len(payments) < MaxPayments
     /\ \E w \in WorkerIds : RefundInsert(w, FreshReference(payments))
  \/ \E w \in WorkerIds : RefundCallGateway(w, TRUE)
  \/ \E w \in WorkerIds : RefundUpdateRefund(w)
  \/ \E w \in WorkerIds : RefundUpdateBooking(w)
  \/ \E w \in WorkerIds : RefundUpdateOriginal(w)

SpecCancelRide == Init /\ [][NextCancelRide]_vars

\* Concurrent cancellations of one booking: p1 books and pays once, then p1 and
\* the driver send process-refund requests that run at the same time; the
\* gateway accepts every request and reports the booking fee completed.
NextRefunds ==
  \/ \E s \in 1..MaxSeatsBooked : handleBook("p1", s, rides[RideId].available_seats)
  \/ /\ Quiet /\ payments = <<>>
     /\ \E w \in WorkerIds : InitiateStart(w, "p1", "p1", ValidPhone, 30)
  \/ \E w \in WorkerIds : InitiateInsert(w, FreshReference(payments))
  \/ \E w \in WorkerIds : InitiateCallGateway(w, TRUE)
  \/ \E w \in WorkerIds : InitiateUpdate(w)
  \/ /\ Quiet
     /\ \E w \in WorkerIds, ref \in gateway : WebhookLookup(w, ref, "completed")
  \/ \E w \in WorkerIds : WebhookUpdatePayment(w)
  \/ \E w \in WorkerIds : WebhookUpdateBooking(w)
  \/ \E w \in WorkerIds, u \in {"p1", Driver} :
        RefundStart(w, u, "p1", IF u = Driver THEN "driver" ELSE "passenger", 61, TRUE)
  \/ /\ Len(payments) < MaxRefundPayments
     /\ \E w \in WorkerIds : RefundInsert(w, FreshReference(payments))
  \/ \E w \in WorkerIds : RefundCallGateway(w, TRUE)
  \/ \E w \in WorkerIds : RefundUpdateRefund(w)
  \/ \E w \in WorkerIds : RefundUpdateBooking(w)
  \/ \E w \in WorkerIds : RefundUpdateOriginal(w)

SpecRefunds == Init /\ [][NextRefunds]_vars

\* The contact of a payment request: passenger p1 books and pays, one request
\* at a time, giving the contact in any spelling or a contact that is none.
NextContact ==
  \/ \E s \in 1..MaxSeatsBooked : handleBook("p1", s, rides[RideId].available_seats)
  \/ /\ Quiet
     /\ \E w \in WorkerIds, sub \in Subscribers :
          \E ph \in Spellings(sub) \cup NoContacts : InitiateStart(w, "p1", "p1", ph, 30)
  \/ /\ Len(payments) < MaxPayments
     /\ \E w \in WorkerIds : InitiateInsert(w, FreshReference(payments))
  \/ \E w \in WorkerIds, a \in BOOLEAN : InitiateCallGateway(w, a)
  \/ \E w \in WorkerIds : InitiateUpdate(w)

SpecContact == Init /\ [][NextContact]_vars

\* The fee of a booking: rides of every price, bookings of every number of
\* seats the schema allows, paid by one request at a time.
InitFee ==
  /\ rides \in [{RideId} -> [total_seats : {MaxSeatsPerBooking},
                             available_seats : {MaxSeatsPerBooking},
                             price : 1..MaxPrice, status : {"active"}]]
  /\ bookings = [b \in BookingRows |-> NoBooking]
  /\ payments = <<>>
  /\ gateway = {}
  /\ workers = [w \in WorkerIds |-> Idle]
  /\ response = NoResponse
  /\ reserved = {}

NextFee ==
  \/ \E s \in 1..MaxSeatsPerBooking : handleBook("p1", s, rides[RideId].available_seats)
  \/ /\ Quiet
     /\ \E w \in WorkerIds : InitiateStart(w, "p1", "p1", ValidPhone, 30)
  \/ /\ Len(payments) < MaxPayments
     /\ \E w \in WorkerIds : InitiateInsert(w, FreshReference(payments))
  \/ \E w \in WorkerIds, a \in BOOLEAN : InitiateCallGateway(w, a)
  \/ \E w \in WorkerIds : InitiateUpdate(w)

SpecFee == InitFee /\ [][NextFee]_vars

\* Mutant: the webhook's catch block answers 400.
HttpStatusCatch400(a) ==
  IF a.kind = "webhook" /\ a.resp \notin {"malformed", "error"} THEN 200
  ELSE IF a.resp = "ok" THEN 200
  ELSE 400

\* HTTP status of an answer: pandora-webhook answers 200 on every path, the
\* catch block included; initiate-payment and process-refund answer 200 on
\* success and 400 from their catch blocks.
HttpStatus(a) ==
  IF a.kind = "webhook" THEN 200
  ELSE IF a.resp = "ok" THEN 200
  ELSE 400

\* ------------------------------------------- requests run without interleaving
\* The ledger as one value, and the handlers run from their first statement to
\* their answer with no other request in between.
Ledger == [rides |-> rides, bookings |-> bookings, payments |-> payments]

\* pandora-webhook for payload {transaction_ref: ref, status: st}; updates counts
\* the UPDATE statements that were applied.
WebhookRun(d, ref, st) ==
  LET found == PaymentByReference(d.payments, ref)
  IN IF ref = MissingRef \/ st = MissingStatus
       THEN [ledger |-> d, resp |-> "malformed", updates |-> 0]
     ELSE IF found = {} THEN [ledger |-> d, resp |-> "unknown", updates |-> 0]
     ELSE LET pid == CHOOSE i \in found : TRUE
              p == d.payments[pid]
          IN IF AlreadyProcessed(p.status) THEN [ledger |-> d, resp |-> "already", updates |-> 0]
             ELSE IF st = "completed"
               THEN LET res == UpdateBookingStatus(d.rides, d.bookings, p.booking_id, "confirmed")
                    IN [ledger |-> [rides |-> res.rides, bookings |-> res.bookings,
                                    payments |->
                                      SetPaymentStatusAndTransaction(d.payments, pid, "completed")],
                        resp |-> IF res.ok THEN "ok" ELSE "error",
                        updates |-> IF res.ok THEN 2 ELSE 1]
             ELSE IF st \in FailureStatus
               THEN [ledger |-> [d EXCEPT !.payments = FailPayment(d.payments, pid, p.retry_count)],
                     resp |-> "ok", updates |-> 1]
             ELSE [ledger |-> d, resp |-> "ok", updates |-> 0]

\* initiate-payment for a booking that passes the validations: the payment row
\* is inserted and, after the gateway's answer, marked processing or failed.
InitiateRun(d, b, phone_number, accepted) ==
  LET fee == bookingFee(d.rides[RideId].price, d.bookings[b].seats_booked)
      ps == InsertPayment(d.payments, b, b, "booking_fee", fee, FreshReference(d.payments),
                          normalizePhone(cleanPhone(phone_number)))
  IN [d EXCEPT !.payments = InitiateStatus(ps, Len(ps), accepted),
               !.bookings = SetBookingFee(d.bookings, b, fee)]

\* Mutant: the status of the booking is not checked.
InitiateRequestAnyStatus(d, user, b, phone_number, minutes, accepted) ==
  LET reject(r) == [ledger |-> d, resp |-> r, calls |-> 0]
  IN IF ~phoneRegex(cleanPhone(phone_number)) THEN reject("invalid_phone")
     ELSE IF d.bookings[b].status = "none" THEN reject("booking_not_found")
     ELSE IF b # user THEN reject("not_your_booking")
     ELSE IF minutes < 0 THEN reject("departed")
     ELSE [ledger |-> InitiateRun(d, b, phone_number, accepted),
           resp |-> IF accepted THEN "ok" ELSE "gateway_error", calls |-> 1]

\* initiate-payment from the request on: the validations in the order of the
\* code, then InitiateRun; calls counts the requests sent to the gateway.
InitiateRequest(d, user, b, phone_number, minutes, accepted) ==
  LET reject(r) == [ledger |-> d, resp |-> r, calls |-> 0]
  IN IF ~phoneRegex(cleanPhone(phone_number)) THEN reject("invalid_phone")
     ELSE IF d.bookings[b].status = "none" THEN reject("booking_not_found")
     ELSE IF b # user THEN reject("not_your_booking")
     ELSE IF d.bookings[b].status # "pending_payment" THEN reject("wrong_status")
     ELSE IF minutes < 0 THEN reject("departed")
     ELSE [ledger |-> InitiateRun(d, b, phone_number, accepted),
           resp |-> IF accepted THEN "ok" ELSE "gateway_error", calls |-> 1]

\* The rows booking.payment?.find(...) can return: PostgREST returns the
\* embedded payments in no stated order.
Originals(d, b) ==
  IF CompletedPayments(d.payments, b) = {} THEN {0} ELSE CompletedPayments(d.payments, b)

\* Mutant: the refund goes on when the driver has no contact on file.
RefundRequestAnyContact(d, user, b, ctype, minutes, o, accepted, driverPhone) ==
  LET reject(r) == [ledger |-> d, resp |-> r, calls |-> 0]
  IN IF d.bookings[b].status # "confirmed" THEN reject("booking_not_found")
     ELSE IF ctype = "driver" /\ user # Driver THEN reject("not_driver")
     ELSE IF ctype = "passenger" /\ user # b THEN reject("not_passenger")
     ELSE IF CompletedPayments(d.payments, b) = {} THEN reject("no_completed_payment")
     ELSE
       LET rtype == RefundType(ctype, minutes)
           ps == InsertPayment(d.payments, b, IF rtype = "refund_to_driver" THEN Driver ELSE b,
                               rtype, d.payments[o].amount, FreshReference(d.payments),
                               IF rtype = "refund_to_driver" THEN DriverPhone
                               ELSE d.payments[o].phone_number)
           ps2 == InitiateStatus(ps, Len(ps), accepted)
           res == UpdateBookingStatus(d.rides, d.bookings, b,
                    IF ctype = "driver" THEN "cancelled_by_driver" ELSE "cancelled_by_passenger")
       IN IF ~accepted
          THEN [ledger |-> [d EXCEPT !.payments = ps2], resp |-> "gateway_error", calls |-> 1]
          ELSE [ledger |-> [rides |-> res.rides, bookings |-> res.bookings,
                            payments |-> SetPaymentStatus(ps2, o, "refunded")],
                resp |-> "ok", calls |-> 1]

\* process-refund from the request on, with o the payment found as original
\* and driverPhone whether the driver's users row has a phone_number.
RefundRequest(d, user, b, ctype, minutes, o, accepted, driverPhone) ==
  LET reject(r) == [ledger |-> d, resp |-> r, calls |-> 0]
  IN IF d.bookings[b].status # "confirmed" THEN reject("booking_not_found")
     ELSE IF ctype = "driver" /\ user # Driver THEN reject("not_driver")
     ELSE IF ctype = "passenger" /\ user # b THEN reject("not_passenger")
     ELSE IF CompletedPayments(d.payments, b) = {} THEN reject("no_completed_payment")
     ELSE IF RefundType(ctype, minutes) = "refund_to_driver" /\ ~driverPhone
       THEN reject("driver_phone_not_found")
     ELSE
       LET rtype == RefundType(ctype, minutes)
           ps == InsertPayment(d.payments, b, IF rtype = "refund_to_driver" THEN Driver ELSE b,
                               rtype, d.payments[o].amount, FreshReference(d.payments),
                               IF rtype = "refund_to_driver" THEN DriverPhone
                               ELSE d.payments[o].phone_number)
           ps2 == InitiateStatus(ps, Len(ps), accepted)
           res == UpdateBookingStatus(d.rides, d.bookings, b,
                    IF ctype = "driver" THEN "cancelled_by_driver" ELSE "cancelled_by_passenger")
       IN IF ~accepted
          THEN [ledger |-> [d EXCEPT !.payments = ps2], resp |-> "gateway_error", calls |-> 1]
          ELSE [ledger |-> [rides |-> res.rides, bookings |-> res.bookings,
                            payments |-> SetPaymentStatus(ps2, o, "refunded")],
                resp |-> "ok", calls |-> 1]

\* process-refund when the driver has a contact on file.
RefundRun(d, user, b, ctype, minutes, o, accepted) ==
  RefundRequest(d, user, b, ctype, minutes, o, accepted, TRUE)

\* ------------------------------------------------------------------ claims
RECURSIVE SeatsOf(_, _)
SeatsOf(bs, S) ==
  IF S = {} THEN 0
  ELSE LET b == CHOOSE x \in S : TRUE
       IN (IF bs[b].status = "confirmed" THEN bs[b].seats_booked ELSE 0) + SeatsOf(bs, S \ {b})
ConfirmedSeats(bs) == SeatsOf(bs, Passengers)

ConfirmStep(w) ==
  workers[w].kind = "webhook" /\ workers[w].pc = "update_booking" /\ workers'[w] = Idle

\* C1: for every ride, in every reachable state, 0 <= available_seats <=
\* total_seats, whatever the interleaving of confirmations and cancellations.
C1_SeatsInRange ==
  \A r \in DOMAIN rides :
    rides[r].available_seats >= 0 /\ rides[r].available_seats <= rides[r].total_seats

\* Both bookings have taken seats at some time, one of them has been cancelled
\* and a confirmation has just been refused for lack of seats.
C1_Witness ==
  /\ Cardinality(reserved) = 2
  /\ \E b \in Passengers : bookings[b].status \in CancelledStatuses
  /\ rides[RideId].available_seats < rides[RideId].total_seats
  /\ response = Answer("webhook", "error")

\* Two deliveries of the `completed` notification for payment i, one after
\* the other.
Deliveries(i) ==
  LET one == WebhookRun(Ledger, payments[i].pandora_reference, "completed")
  IN [one |-> one, two |-> WebhookRun(one.ledger, payments[i].pandora_reference, "completed")]

Unprocessed(i) ==
  /\ payments[i].payment_type = "booking_fee"
  /\ payments[i].status \notin {"completed", "refunded"}
  /\ bookings[payments[i].booking_id].status = "pending_payment"

C3_ProcessedPaymentNoWrite ==
  [][/\ \A w \in WorkerIds :
          (workers[w].pc = "idle" /\ workers'[w].kind = "webhook")
            => payments[workers'[w].pid].status \notin {"completed", "refunded"}
     /\ (response'.kind = "webhook" /\ response'.seen \in {"completed", "refunded"})
          => /\ response'.resp = "already"
             /\ UNCHANGED <<rides, bookings, payments, gateway, workers, reserved>>]_vars

C3_Witness ==
  /\ response = [kind |-> "webhook", resp |-> "already", seen |-> "refunded"]
  /\ \E i \in PaymentIds : payments[i].status = "refunded"

\* C4: the side effects of a completed payment happen at most once: no
\* confirmation takes seats for a payment that has taken seats before.
C4_SeatsTakenAtMostOnce ==
  [][\A w \in WorkerIds :
       (ConfirmStep(w) /\ rides' # rides) => workers[w].pid \notin reserved]_vars

\* C5: a confirmation applied when the ride has fewer seats left than the booking
\* asks for fails, leaves the booking unconfirmed and the ride unchanged, and the
\* seats of the confirmed bookings never exceed total_seats.
C5_InsufficientSeatsRefused ==
  [][/\ \A w \in WorkerIds :
          (/\ ConfirmStep(w)
           /\ bookings[workers[w].booking].status # "confirmed"
           /\ rides[RideId].available_seats < bookings[workers[w].booking].seats_booked)
            => /\ bookings' = bookings
               /\ rides' = rides
               /\ response' = Answer("webhook", "error")
     /\ ConfirmedSeats(bookings') <= rides'[RideId].total_seats]_vars

\* Two paid bookings of two seats each on a ride of three: one is confirmed,
\* the other one's confirmation has just failed.
C5_Witness ==
  /\ response = Answer("webhook", "error")
  /\ \E b, c \in Passengers :
       /\ b # c
       /\ bookings[b].status = "confirmed"
       /\ bookings[c].status = "pending_payment"
       /\ bookings[b].seats_booked + bookings[c].seats_booked > rides[RideId].total_seats
       /\ \E i \in PaymentIds : payments[i].booking_id = c /\ payments[i].status = "completed"

\* The round trip of C6 from the current ledger: Initiate for booking b, accepted
\* by the gateway, then the `completed` notification for its reference.
RoundTrip(b) ==
  LET d == InitiateRun(Ledger, b, ValidPhone, TRUE)
  IN WebhookRun(d, d.payments[Len(d.payments)].pandora_reference, "completed")

RoundTripConfirms(b) ==
  LET r == RoundTrip(b).ledger
  IN /\ r.bookings[b].status = "confirmed"
     /\ r.payments[Len(r.payments)].status = "completed"
     /\ r.rides[RideId].available_seats = rides[RideId].available_seats - bookings[b].seats_booked

C7_OnlyFromPending ==
  [][\A w \in WorkerIds :
       (/\ ConfirmStep(w)
        /\ bookings[workers[w].booking].status
             \in {"cancelled_by_passenger", "cancelled_by_driver", "completed"})
         => (bookings' = bookings /\ rides' = rides)]_vars

\* C8: a confirmed booking has a booking_fee payment whose status is completed.
C8_ConfirmedHasCompletedFee ==
  \A b \in Passengers : bookings[b].status = "confirmed" =>
    \E i \in PaymentIds : /\ payments[i].booking_id = b
                          /\ payments[i].payment_type = "booking_fee"
                          /\ payments[i].status = "completed"

\* C9: the refund recipient the handler resolves: the passenger when the driver
\* cancels, whatever the time; the passenger when the passenger cancels more
\* than one hour before departure; the driver when the passenger cancels one
\* hour or less before departure, or after it.
C9_RefundRouting ==
  \A w \in WorkerIds : (workers[w].kind = "refund" /\ workers[w].pc = "insert_refund") =>
    /\ workers[w].ctype = "driver" => workers[w].rtype = "refund_to_passenger"
    /\ (workers[w].ctype = "passenger" /\ workers[w].minutes \in {61, 120})
         => workers[w].rtype = "refund_to_passenger"
    /\ (workers[w].ctype = "passenger" /\ workers[w].minutes \in {-30, 0, 30, 60})
         => workers[w].rtype = "refund_to_driver"

\* The passenger cancels exactly one hour before departure.
C9_Witness ==
  \E w \in WorkerIds :
    /\ workers[w].kind = "refund" /\ workers[w].pc = "insert_refund"
    /\ workers[w].ctype = "passenger" /\ workers[w].minutes = 60
    /\ workers[w].rtype = "refund_to_driver"
    /\ bookings[workers[w].booking].status = "confirmed"

\* C10: when the gateway rejects the disbursement, Cancel returns with the refund
\* payment failed, the booking cancelled, the original payment refunded and the
\* seats released.
C10_CancelStandsWithoutPayout ==
  [][\A w \in WorkerIds :
       (/\ workers[w].kind = "refund" /\ workers[w].pc = "update_refund"
        /\ ~workers[w].accepted /\ workers'[w] = Idle)
         => /\ payments'[workers[w].pid].status = "failed"
            /\ bookings'[workers[w].booking].status \in CancelledStatuses
            /\ payments'[workers[w].orig].status = "refunded"]_vars

\* Inputs of a Cancel request, and the answers that reject one.
CancellationTypes == {"passenger", "driver", "other"}
Rejected(r) == r.calls = 0 /\ r.ledger = Ledger /\ r.resp \notin {"ok", "gateway_error"}
HasCompletedFee(b) ==
  \E i \in PaymentIds : /\ payments[i].booking_id = b
                        /\ payments[i].payment_type = "booking_fee"
                        /\ payments[i].status = "completed"

C12_StrangerRejected ==
  \A b \in Passengers, u \in Users, c \in CancellationTypes, m \in MinutesUntil, a \in BOOLEAN :
   \A o \in Originals(Ledger, b) :
    LET r == RefundRun(Ledger, u, b, c, m, o, a)
    IN /\ u \notin {b, Driver} => Rejected(r)
       /\ (c = "driver" /\ u # Driver) => Rejected(r)
       /\ (c = "passenger" /\ u # b) => Rejected(r)

\* C13: a Cancel is rejected, with no payment created, no gateway call and no
\* booking or ride changed, when the booking does not exist or is not confirmed,
\* or when it has no booking_fee payment with status completed.
C13_CancelPreconditions ==
  \A b \in Passengers, u \in Users, c \in CancellationTypes, m \in MinutesUntil, a \in BOOLEAN :
   \A o \in Originals(Ledger, b) :
    (bookings[b].status # "confirmed" \/ ~HasCompletedFee(b))
      => Rejected(RefundRun(Ledger, u, b, c, m, o, a))

\* C14: a notification whose reference matches no payment is answered with
\* HTTP 200 and neither creates nor alters a payment, booking or ride.
C14_UnknownReference ==
  [][/\ \A ref \in {UnknownRef, Len(payments) + 1}, st \in PandoraStatus :
          WebhookRun(Ledger, ref, st) = [ledger |-> Ledger, resp |-> "unknown", updates |-> 0]
     /\ (response'.kind = "webhook" /\ response'.resp = "unknown")
          => /\ UNCHANGED <<rides, bookings, payments, gateway, workers, reserved>>
             /\ HttpStatus(response') = 200]_vars

C14_Witness ==
  /\ response = Answer("webhook", "unknown")
  /\ \E i \in PaymentIds : payments[i].status = "processing"

\* C15: a payload without reference or without status is rejected as malformed,
\* changes nothing, and is answered with HTTP 200.
C15_MalformedPayload ==
  [][/\ \A ref \in gateway \cup {UnknownRef, MissingRef}, st \in PandoraStatus \cup {MissingStatus} :
          (ref = MissingRef \/ st = MissingStatus)
            => WebhookRun(Ledger, ref, st) = [ledger |-> Ledger, resp |-> "malformed", updates |-> 0]
     /\ (response'.kind = "webhook" /\ response'.resp = "malformed")
          => /\ UNCHANGED <<rides, bookings, payments, gateway, workers, reserved>>
             /\ HttpStatus(response') = 200]_vars

C15_Witness ==
  /\ response = Answer("webhook", "malformed")
  /\ \E i \in PaymentIds : payments[i].pandora_reference \in gateway /\ payments[i].status = "processing"

\* C16: when a write fails while a notification is applied to a known payment
\* that was not yet processed, the webhook answers with a server error status.
C16_WriteFailureIsServerError ==
  (response.kind = "webhook" /\ response.resp = "error") => HttpStatus(response) >= 500

\* C17: a failed, cancelled or expired notification for a payment that is not
\* completed or refunded sets the payment failed with a message and increments
\* retry_count, changes no other payment, no booking and no ride; a booking
\* that is pending_payment can be paid again under a new reference.
C17_FailureNotification ==
  \A i \in PaymentIds, st \in FailureStatus :
    payments[i].status \notin {"completed", "refunded"} =>
      LET r == WebhookRun(Ledger, payments[i].pandora_reference, st)
          b == payments[i].booking_id
          again == InitiateRequest(r.ledger, b, b, ValidPhone, 30, TRUE)
      IN /\ r.resp = "ok"
         /\ r.ledger.payments[i] = [payments[i] EXCEPT !.status = "failed", !.error_message = "set",
                                                       !.retry_count = payments[i].retry_count + 1]
         /\ \A j \in PaymentIds \ {i} : r.ledger.payments[j] = payments[j]
         /\ r.ledger.bookings = bookings
         /\ r.ledger.rides = rides
         /\ bookings[b].status = "pending_payment" =>
              /\ again.resp = "ok"
              /\ again.ledger.payments[Len(payments) + 1].pandora_reference
                   # payments[i].pandora_reference

\* The handler has just applied a failure notification: the payment is failed
\* with retry_count 1 and its booking is still pending_payment.
C17_Witness ==
  /\ response = Answer("webhook", "ok")
  /\ \E i \in PaymentIds :
       /\ payments[i].status = "failed" /\ payments[i].error_message = "set"
       /\ payments[i].retry_count = 1
       /\ bookings[payments[i].booking_id].status = "pending_payment"

\* C18: two deliveries of the same failed, cancelled or expired notification
\* leave the payments, retry_count included, as one delivery leaves them.
C18_FailureTwiceIsOnce ==
  \A i \in PaymentIds, st \in FailureStatus :
    LET one == WebhookRun(Ledger, payments[i].pandora_reference, st)
        two == WebhookRun(one.ledger, payments[i].pandora_reference, st)
    IN two.ledger.payments = one.ledger.payments

\* C19: a confirmation refused for lack of seats leaves the payment completed
\* and available_seats unchanged, and leaves the booking unconfirmed but marked:
\* its row differs from the row of the unpaid booking it was.
C19_RefusedBookingIsMarked ==
  [][\A w \in WorkerIds :
       (ConfirmStep(w) /\ response'.resp = "error")
         => /\ payments'[workers[w].pid].status = "completed"
            /\ rides' = rides
            /\ bookings'[workers[w].booking].status # "confirmed"
            /\ bookings'[workers[w].booking] # bookings[workers[w].booking]]_vars

\* C20: Initiate is rejected, with no payment created, no gateway call and no
\* booking or ride changed, when the booking does not exist, is not the
\* requester's, is not pending_payment, its ride has departed, or the phone
\* number does not match the format.
C20_InitiateRejections ==
  [][/\ \A u \in Users, b \in Passengers, ph \in {ValidPhone, InvalidPhone},
           m \in MinutesUntil, a \in BOOLEAN :
          (\/ bookings[b].status = "none" \/ b # u \/ bookings[b].status # "pending_payment"
           \/ m < 0 \/ ~phoneRegex(cleanPhone(ph)))
            => Rejected(InitiateRequest(Ledger, u, b, ph, m, a))
     /\ (/\ response'.kind = "initiate"
         /\ response'.resp \in {"booking_not_found", "not_your_booking", "wrong_status",
                                "departed", "invalid_phone"})
          => UNCHANGED <<rides, bookings, payments, gateway, workers, reserved>>]_vars

\* A request to pay for a booking that is already confirmed has been rejected.
C20_Witness ==
  /\ response = Answer("initiate", "wrong_status")
  /\ bookings["p1"].status = "confirmed"

\* The booking has a booking_fee payment that is pending or processing.
InFlightFee(b) ==
  \E i \in PaymentIds : /\ payments[i].booking_id = b
                        /\ payments[i].payment_type = "booking_fee"
                        /\ payments[i].status \in {"pending", "processing"}

\* C21: while a booking has a booking_fee payment that is pending or
\* processing, a second Initiate for that booking is rejected: it creates no
\* second payment and sends no second collect request to the gateway.
C21_NoDoubleInitiation ==
  \A b \in Passengers, a \in BOOLEAN :
    InFlightFee(b) => Rejected(InitiateRequest(Ledger, b, b, ValidPhone, 30, a))

\* C22: Initiate reports the first precondition that fails in the order
\* booking exists, booking belongs to the payer, booking is pending_payment,
\* departure is in the future, contact format.
C22_FirstFailureInStatedOrder ==
  \A u \in Users, b \in Passengers, ph \in {ValidPhone, InvalidPhone}, m \in {-30, 30},
     a \in BOOLEAN :
    LET r == InitiateRequest(Ledger, u, b, ph, m, a)
    IN IF bookings[b].status = "none" THEN r.resp = "booking_not_found"
       ELSE IF b # u THEN r.resp = "not_your_booking"
       ELSE IF bookings[b].status # "pending_payment" THEN r.resp = "wrong_status"
       ELSE IF m < 0 THEN r.resp = "departed"
       ELSE IF ~phoneRegex(cleanPhone(ph)) THEN r.resp = "invalid_phone"
       ELSE r.resp \in {"ok", "gateway_error"}

\* The worker has sent its request to the gateway and handles the answer.
CalledGateway(w) ==
  \/ workers[w].kind = "initiate" /\ workers[w].pc = "update_status"
  \/ workers[w].kind = "refund" /\ workers[w].pc \in {"update_refund", "update_booking",
                                                      "update_original"}

\* C23: in every reachable state, every reference the gateway has received a
\* request for is the reference of a payment row: the pending payment is
\* inserted before the gateway is called, also when the handler stops between
\* the two steps or the gateway rejects the request.
C23_PaymentBeforeGateway ==
  /\ \A r \in gateway : PaymentByReference(payments, r) # {}
  /\ \A w \in WorkerIds :
       CalledGateway(w) => /\ workers[w].pid \in PaymentIds
                           /\ payments[workers[w].pid].booking_id = workers[w].booking

\* The gateway has accepted the collect request of a payment whose row is
\* still pending: the handler has not handled the gateway's answer yet.
C23_Witness ==
  \E w \in WorkerIds :
    /\ workers[w].kind = "initiate" /\ workers[w].pc = "update_status"
    /\ payments[workers[w].pid].pandora_reference \in gateway
    /\ payments[workers[w].pid].status = "pending"

InitiateUpdateStep(w) ==
  workers[w].kind = "initiate" /\ workers[w].pc = "update_status" /\ workers'[w] = Idle

\* C24: after Initiate's gateway call, a rejected request marks the payment
\* failed with an error message, returns the failure to the caller and leaves
\* the booking pending_payment; an accepted request marks the payment
\* processing and records the gateway transaction id.
C24_AfterGatewayCall ==
  [][/\ \A b \in Passengers, a \in BOOLEAN :
          bookings[b].status = "pending_payment" =>
            LET r == InitiateRequest(Ledger, b, b, ValidPhone, 30, a)
                p == r.ledger.payments[Len(payments) + 1]
            IN /\ r.calls = 1
               /\ Len(r.ledger.payments) = Len(payments) + 1
               /\ r.ledger.bookings[b].status = "pending_payment"
               /\ IF a THEN /\ r.resp = "ok"
                            /\ p.status = "processing"
                            /\ p.pandora_transaction_id = "set"
                            /\ p.error_message = "null"
                  ELSE /\ r.resp = "gateway_error"
                       /\ HttpStatus(Answer("initiate", r.resp)) = 400
                       /\ p.status = "failed"
                       /\ p.error_message = "set"
     /\ \A w \in WorkerIds :
          InitiateUpdateStep(w) =>
            LET p == payments'[workers[w].pid]
            IN /\ bookings' = bookings /\ rides' = rides
               /\ IF workers[w].accepted
                  THEN /\ response' = Answer("initiate", "ok")
                       /\ p.status = "processing" /\ p.pandora_transaction_id = "set"
                  ELSE /\ response' = Answer("initiate", "gateway_error")
                       /\ HttpStatus(response') = 400
                       /\ p.status = "failed" /\ p.error_message = "set"]_vars

\* The gateway has just rejected a collect request: the failure is answered,
\* the payment is failed with a message and its booking is pending_payment.
C24_Witness ==
  /\ response = Answer("initiate", "gateway_error")
  /\ \E i \in PaymentIds :
       /\ payments[i].status = "failed" /\ payments[i].error_message = "set"
       /\ payments[i].retry_count = 0 /\ payments[i].pandora_transaction_id = "null"
       /\ bookings[payments[i].booking_id].status = "pending_payment"

\* A step of an initiate-payment request: a request answered at once, or a
\* statement of the worker that runs one.
InitiateStep ==
  \/ response'.kind = "initiate"
  \/ \E w \in WorkerIds : /\ workers'[w] # workers[w]
                          /\ workers[w].kind = "initiate" \/ workers'[w].kind = "initiate"

\* The payments of booking b, and a booking all of whose payments are pending,
\* processing or failed.
PaymentsOf(b) == {i \in PaymentIds : payments[i].booking_id = b}
Unpaid(b) ==
  /\ PaymentsOf(b) # {}
  /\ \A i \in PaymentsOf(b) : payments[i].status \in {"pending", "processing", "failed"}

\* C25: Initiate, whether it succeeds or fails, leaves the available_seats and
\* status of every ride and the status of the booking unchanged; seats are
\* taken only when a payment completes, so a booking whose payments are
\* pending, processing or failed holds no seats of its ride.
C25_InitiateTakesNoSeats ==
  [][/\ InitiateStep =>
          /\ rides' = rides
          /\ \A b \in Passengers : bookings'[b].status = bookings[b].status
     /\ \A b \in Passengers : Unpaid(b)' => bookings'[b].status # "confirmed"]_vars

\* C26: in every reachable state no two payment rows, booking-fee or refund,
\* of any retry, booking or passenger, have the same pandora_reference.
C26_UniqueReferences ==
  \A i \in PaymentIds, j \in PaymentIds :
    i # j => payments[i].pandora_reference # payments[j].pandora_reference

\* A Cancel that generated, for its refund, the reference of the completed
\* booking_fee payment has just been refused by the insert.
C26_Witness ==
  /\ response = Answer("refund", "insert_failed")
  /\ HasCompletedFee("p1")
  /\ Len(payments) = 1

\* The least n with 10 * n >= x: x / 10 rounded up.
TenthRoundedUp(x) == CHOOSE n \in 0..x : 10 * n >= x /\ 10 * (n - 1) < x

FeePayments(b) ==
  {i \in PaymentIds : payments[i].booking_id = b /\ payments[i].payment_type = "booking_fee"}

\* C27: for every price per seat p >= 1 and seats_booked s in 1..4 the payment
\* created by Initiate has amount ceil(p * s / 10), and after Initiate the
\* booking_fee of the booking is that amount.
C27_FeeIsTenthRoundedUp ==
  /\ \A p \in 1..MaxPrice, s \in 1..MaxSeatsPerBooking : bookingFee(p, s) = TenthRoundedUp(p * s)
  /\ \A b \in Passengers : \A i \in FeePayments(b) :
       /\ payments[i].amount = TenthRoundedUp(rides[RideId].price * bookings[b].seats_booked)
       /\ bookings[b].booking_fee = payments[i].amount

\* Initiate has succeeded for a booking of several seats whose fee on the
\* booking page, the per-seat fee rounded up times the seats, was another amount.
C27_Witness ==
  /\ response = Answer("initiate", "ok")
  /\ \E b \in Passengers : \E i \in FeePayments(b) :
       /\ bookings[b].seats_booked > 1
       /\ payments[i].amount # calculateBookingFee(rides[RideId].price) * bookings[b].seats_booked
       /\ bookings[b].booking_fee = payments[i].amount

\* The canonical digits of a subscriber number.
Canonical(sub) == CountryCode \o sub

\* C28: canonicalization of the contact is deterministic and idempotent: every
\* accepted spelling of a number (+2567XXXXXXXX, 2567XXXXXXXX, 07XXXXXXXX,
\* 7XXXXXXXX, with or without blanks) is accepted, is stored in the payment
\* and sent to the gateway (the worker's phone) as the same canonical digits,
\* and an already canonical number is returned unchanged.
C28_ContactCanonical ==
  /\ \A sub \in Subscribers :
       /\ \A ph \in Spellings(sub) :
            /\ phoneRegex(cleanPhone(ph))
            /\ normalizePhone(cleanPhone(ph)) = Canonical(sub)
            /\ normalizePhone(normalizePhone(cleanPhone(ph))) = normalizePhone(cleanPhone(ph))
       /\ normalizePhone(cleanPhone(Canonical(sub))) = Canonical(sub)
  /\ \A w \in WorkerIds :
       workers[w].kind = "initiate" =>
         \E sub \in Subscribers :
           /\ workers[w].phone_number \in Spellings(sub)
           /\ workers[w].phone = Canonical(sub)
           /\ workers[w].pid # 0 => payments[workers[w].pid].phone_number = Canonical(sub)
  /\ \A i \in PaymentIds : \E sub \in Subscribers : payments[i].phone_number = Canonical(sub)

\* A request that spelled the contact "+256 7XX XXXXXX" with blanks has
\* stored its payment and is about to send the collect request.
C28_Witness ==
  \E w \in WorkerIds, sub \in Subscribers :
    /\ workers[w].kind = "initiate" /\ workers[w].pc = "call_gateway"
    /\ workers[w].phone_number = Grouped(<<"+">> \o CountryCode, sub)
    /\ workers[w].phone = Canonical(sub)
    /\ payments[workers[w].pid].phone_number = Canonical(sub)

\* C29: when the refund goes to the driver and the driver has no contact on
\* file, Cancel fails with an error of its own and changes nothing: no refund
\* payment, no gateway call, booking, original payment and available_seats as
\* they were.
C29_DriverWithoutContact ==
  [][/\ \A b \in Passengers, c \in CancellationTypes, m \in MinutesUntil :
          (bookings[b].status = "confirmed" /\ RefundType(c, m) = "refund_to_driver") =>
            \A u \in Users, a \in BOOLEAN, o \in Originals(Ledger, b) :
              LET r == RefundRequest(Ledger, u, b, c, m, o, a, FALSE)
              IN RefundRequest(Ledger, u, b, c, m, o, a, TRUE).calls = 1 =>
                   /\ r.resp = "driver_phone_not_found"
                   /\ Rejected(r)
                   /\ HttpStatus(Answer("refund", r.resp)) = 400
     /\ response'.resp = "driver_phone_not_found"
          => UNCHANGED <<rides, bookings, payments, gateway, workers, reserved>>]_vars

\* A Cancel of a confirmed booking whose refund goes to the driver has just
\* been refused because the driver has no contact on file.
C29_Witness ==
  /\ response = Answer("refund", "driver_phone_not_found")
  /\ bookings["p1"].status = "confirmed"
  /\ HasCompletedFee("p1")

\* C30: in every reachable state, for every ride whose status is active or
\* full, status = full if and only if available_seats = 0.
C30_FullIffNoSeats ==
  \A r \in DOMAIN rides :
    rides[r].status \in {"active", "full"} =>
      (rides[r].status = "full" <=> rides[r].available_seats = 0)

\* The confirmations of both bookings have taken all the seats of the ride.
C30_Witness ==
  /\ rides[RideId].status = "full" /\ rides[RideId].available_seats = 0
  /\ ConfirmedSeats(bookings) = rides[RideId].total_seats
  /\ \A b \in Passengers : bookings[b].status = "confirmed"

\* C31: once the driver has cancelled the ride, no confirmation and no
\* cancellation of a booking (the refunds of the ride's cancellation included)
\* changes the ride's status: a Release adds the seats and leaves it cancelled.
C31_CancelledRideStaysCancelled ==
  [][rides[RideId].status = "cancelled" => rides'[RideId].status = "cancelled"]_vars

\* C40: no booking becomes confirmed, and no seat is taken, while the status of
\* its ride is cancelled.
C40_NoConfirmationOnCancelledRide ==
  [][rides[RideId].status = "cancelled" =>
       /\ \A b \in Passengers :
            bookings'[b].status = "confirmed" => bookings[b].status = "confirmed"
       /\ rides'[RideId].available_seats >= rides[RideId].available_seats]_vars

\* C32: a payment whose status is failed or refunded is terminal: no webhook
\* delivery, of any status and in any order, and no step of Initiate or Cancel
\* changes its status again.
C32_FailedAndRefundedAreTerminal ==
  [][\A i \in PaymentIds :
       payments[i].status \in {"failed", "refunded"}
         => payments'[i].status = payments[i].status]_vars

\* C36: a `completed` notification for a refund payment changes the status of
\* that payment only: the booking keeps its status (a cancelled booking does
\* not become confirmed again) and available_seats is unchanged.
C36_RefundCompletedTouchesRefundOnly ==
  \A i \in PaymentIds :
    (/\ payments[i].payment_type \in {"refund_to_passenger", "refund_to_driver"}
     /\ payments[i].pandora_reference \in gateway) =>
      LET r == WebhookRun(Ledger, payments[i].pandora_reference, "completed").ledger
      IN /\ r.bookings = bookings
         /\ r.rides = rides
         /\ \A j \in PaymentIds \ {i} : r.payments[j] = payments[j]

\* C37: once the status of a payment is completed it is never pending,
\* processing or failed again; the only status it can get is refunded.
C37_CompletedStaysCompleted ==
  [][\A i \in PaymentIds :
       payments[i].status = "completed"
         => payments'[i].status \in {"completed", "refunded"}]_vars

\* C38: for every booking at most one booking_fee payment is completed,
\* whatever Initiate calls are repeated and in whatever order the
\* notifications arrive.
C38_OneCompletedFeePerBooking ==
  \A b \in Passengers :
    Cardinality({i \in FeePayments(b) : payments[i].status = "completed"}) <= 1

\* The seats held by the bookings of S that are confirmed or completed.
RECURSIVE SeatsHeld(_, _)
SeatsHeld(bs, S) ==
  IF S = {} THEN 0
  ELSE LET b == CHOOSE x \in S : TRUE
       IN (IF bs[b].status \in {"confirmed", "completed"} THEN bs[b].seats_booked ELSE 0)
            + SeatsHeld(bs, S \ {b})

RECURSIVE SumAmounts(_, _)
SumAmounts(ps, S) ==
  IF S = {} THEN 0
  ELSE LET i == CHOOSE x \in S : TRUE IN ps[i].amount + SumAmounts(ps, S \ {i})

\* The refunds of booking b the gateway was asked to pay out, and the
\* booking-fee payments of b that completed (refunded ones have completed).
RefundsSent(b) ==
  {i \in PaymentsOf(b) : /\ payments[i].payment_type \in {"refund_to_passenger", "refund_to_driver"}
                         /\ payments[i].pandora_reference \in gateway}
FeesCompleted(b) == {i \in FeePayments(b) : payments[i].status \in {"completed", "refunded"}}

\* C35: for every booking the refunds created and sent to the gateway never
\* add up to more than the booking-fee payments of the booking that completed,
\* whatever Cancel requests for the booking run concurrently; one completed
\* booking fee is refunded at most once.
C35_RefundsWithinFees ==
  \A b \in Passengers :
    SumAmounts(payments, RefundsSent(b)) <= SumAmounts(payments, FeesCompleted(b))

\* The bookings of passenger u for the ride that are not cancelled.
OpenBookings(u) ==
  {k \in RowsOf(u) : bookings[k].status \in {"pending_payment", "confirmed", "completed"}}

\* C33: a passenger has at most one booking of the ride that is not cancelled
\* (pending_payment, confirmed or completed); the constraint
\* unique_passenger_ride allows one booking row per ride and passenger at all.
C33_OneOpenBookingPerPassenger ==
  \A u \in Passengers :
    /\ Cardinality(OpenBookings(u)) <= 1
    /\ Cardinality({k \in RowsOf(u) : bookings[k].status # "none"}) <= 1

\* One passenger holds a booking that is not cancelled while the other one's
\* booking was cancelled, so that the page offers that passenger to book again.
C33_Witness ==
  \E u, v \in Passengers :
    /\ Cardinality(OpenBookings(u)) = 1
    /\ bookings[v].status \in CancelledStatuses

\* C39: a booking-fee payment that is completed yields a confirmed booking:
\* when the handling of the notification ended after the payment was marked
\* completed and before the booking was confirmed, and the ride has the seats
\* of the booking, delivering the notification again confirms the booking.
C39_RedeliveryConfirms ==
  \A b \in Passengers : \A i \in FeePayments(b) :
    ( /\ Quiet
      /\ payments[i].status = "completed"
      /\ bookings[b].status = "pending_payment"
      /\ rides[RideId].available_seats >= bookings[b].seats_booked )
    => WebhookRun(Ledger, payments[i].pandora_reference, "completed").ledger.bookings[b].status
         = "confirmed"

====
